---- MODULE Spec2Model ----
(***************************************************************************)
(* Model of batch_fix_packs.py: the batch driver process_zip_files, the    *)
(* scanner check_if_has_models and the patcher                             *)
(* fix_missing_textures_in_memory, over a small directory of archives.     *)
(*                                                                         *)
(* Strings that the code inspects by substring, prefix or suffix (file     *)
(* names, entry names) are sequences of tokens; entry contents are         *)
(* sequences of byte values, decoded and encoded as UTF-8.                 *)
(***************************************************************************)
EXTENDS Integers, Sequences, FiniteSets, TLC

VARIABLES
    fs,               \* the directory: file name -> file content or Absent
    fs0,              \* the directory as it was when the batch listed it
    run,              \* number of batches started so far
    pc,               \* position of process_zip_files
    create_backups,   \* the answer to the backup prompt
    zip_files,        \* the listing, read once per batch
    idx,              \* enumerate(zip_files, 1)
    total_fixed,
    successful_packs,
    failed_packs,
    skipped_packs,
    history,
    status_lines,
    buffer,           \* temp_buffer returned by fix_missing_textures_in_memory
    fixed_count,
    err               \* the exception caught at line 322, or NoError

vars == <<fs, fs0, run, pc, create_backups, zip_files, idx, total_fixed,
          successful_packs, failed_packs, skipped_packs, history,
          status_lines, buffer, fixed_count, err>>

----------------------------------------------------------------------------
(* Bounds *)

MaxRuns == 2

----------------------------------------------------------------------------
(* Strings as token sequences *)

BackupPrefix == "backup_"
DotZip == ".zip"
DotTmp == ".tmp"
DotJson == ".json"
ModelsItem == "models/item/"

\* f.startswith(tok) / f.endswith(tok) / tok in f
StartsWith(s, tok) == Len(s) > 0 /\ s[1] = tok
EndsWith(s, tok) == Len(s) > 0 /\ s[Len(s)] = tok
Contains(s, tok) == \E i \in 1..Len(s) : s[i] = tok

\* f"backup_{zip_filename}" and zip_path + '.tmp'
BackupName(zf) == <<BackupPrefix>> \o zf
TempName(zf) == zf \o <<DotTmp>>

----------------------------------------------------------------------------
(* Bytes and text *)

\* b'#missing' and b'#0'
MissingStr == <<35, 109, 105, 115, 115, 105, 110, 103>>
ZeroStr == <<35, 48>>

\* The outcome of bytes.decode('utf-8'): the text, or UnicodeDecodeError
DecodeError == [ok |-> FALSE, text |-> <<>>]
Decoded(s) == [ok |-> TRUE, text |-> s]

IsCont(b) == b >= 128 /\ b <= 191

\* Number of bytes of the UTF-8 sequence starting at b[i], 0 when it is invalid.
Utf8SeqLen(b, i) ==
    LET n == Len(b)
        b0 == b[i]
        b1 == IF i + 1 <= n THEN b[i + 1] ELSE 0
        b2 == IF i + 2 <= n THEN b[i + 2] ELSE 0
        b3 == IF i + 3 <= n THEN b[i + 3] ELSE 0
    IN  IF b0 < 128 THEN 1
        ELSE IF b0 >= 194 /\ b0 <= 223
            THEN IF IsCont(b1) THEN 2 ELSE 0
        ELSE IF b0 >= 224 /\ b0 <= 239
            THEN IF /\ IsCont(b1) /\ IsCont(b2)
                    /\ (b0 = 224 => b1 >= 160)
                    /\ (b0 = 237 => b1 <= 159)
                 THEN 3 ELSE 0
        ELSE IF b0 >= 240 /\ b0 <= 244
            THEN IF /\ IsCont(b1) /\ IsCont(b2) /\ IsCont(b3)
                    /\ (b0 = 240 => b1 >= 144)
                    /\ (b0 = 244 => b1 <= 143)
                 THEN 4 ELSE 0
        ELSE 0

CodePoint(b, i, k) ==
    CASE k = 1 -> b[i]
      [] k = 2 -> (b[i] - 192) * 64 + (b[i + 1] - 128)
      [] k = 3 -> (b[i] - 224) * 4096 + (b[i + 1] - 128) * 64 + (b[i + 2] - 128)
      [] k = 4 -> (b[i] - 240) * 262144 + (b[i + 1] - 128) * 4096
                    + (b[i + 2] - 128) * 64 + (b[i + 3] - 128)

RECURSIVE DecodeFrom(_, _, _)
DecodeFrom(b, i, acc) ==
    IF i > Len(b) THEN Decoded(acc)
    ELSE LET k == Utf8SeqLen(b, i)
         IN  IF k = 0 THEN DecodeError
             ELSE DecodeFrom(b, i + k, Append(acc, CodePoint(b, i, k)))

\* bytes.decode('utf-8')
Decode(b) == DecodeFrom(b, 1, <<>>)

EncodeChar(c) ==
    IF c < 128 THEN <<c>>
    ELSE IF c < 2048 THEN <<192 + (c \div 64), 128 + (c % 64)>>
    ELSE IF c < 65536
        THEN <<224 + (c \div 4096), 128 + ((c \div 64) % 64), 128 + (c % 64)>>
    ELSE <<240 + (c \div 262144), 128 + ((c \div 4096) % 64),
           128 + ((c \div 64) % 64), 128 + (c % 64)>>

\* mutant of Encode: characters outside ASCII are left out
RECURSIVE EncodeAsciiOnly(_)
EncodeAsciiOnly(s) ==
    IF s = <<>> THEN <<>>
    ELSE (IF Head(s) < 128 THEN <<Head(s)>> ELSE <<>>) \o EncodeAsciiOnly(Tail(s))

RECURSIVE Encode(_)
\* str.encode('utf-8')
Encode(s) == IF s = <<>> THEN <<>> ELSE EncodeChar(Head(s)) \o Encode(Tail(s))

MatchAt(s, i, pat) ==
    /\ i + Len(pat) - 1 <= Len(s)
    /\ \A j \in 1..Len(pat) : s[i + j - 1] = pat[j]

\* pat in s
HasSub(s, pat) == \E i \in 1..Len(s) : MatchAt(s, i, pat)

\* mutant of ReplaceFrom: only the first occurrence is replaced
RECURSIVE ReplaceFromFirstOnly(_, _, _, _)
ReplaceFromFirstOnly(s, i, old, new) ==
    IF i > Len(s) THEN <<>>
    ELSE IF MatchAt(s, i, old) THEN new \o SubSeq(s, i + Len(old), Len(s))
    ELSE <<s[i]>> \o ReplaceFromFirstOnly(s, i + 1, old, new)

RECURSIVE ReplaceFrom(_, _, _, _)
ReplaceFrom(s, i, old, new) ==
    IF i > Len(s) THEN <<>>
    ELSE IF MatchAt(s, i, old) THEN new \o ReplaceFrom(s, i + Len(old), old, new)
    ELSE <<s[i]>> \o ReplaceFrom(s, i + 1, old, new)

\* s.replace(old, new): every non-overlapping occurrence, left to right
Replace(s, old, new) == ReplaceFrom(s, 1, old, new)

----------------------------------------------------------------------------
(* Files and archives *)

Absent == [kind |-> "absent"]
\* a file that is not a ZIP archive
Garbage == [kind |-> "garbage"]
\* a ZIP file; complete = its central directory has been written with all its
\* entries (a file cut short while being written or copied is not complete)
Zip(entries, complete) == [kind |-> "zip", entries |-> entries, complete |-> complete]

Exists(f) == f # Absent

\* zipfile.ZipFile(path, 'r') succeeds
Openable(f) == f.kind = "zip" /\ f.complete

\* file_path.endswith('.json') and 'models/item/' in file_path
IsTarget(name) == EndsWith(name, DotJson) /\ Contains(name, ModelsItem)

\* mutants of check_if_has_models: only the extension is tested; a failure to
\* open the archive is answered True
check_if_has_models_AnyJson(f) ==
    IF ~Openable(f) THEN FALSE
    ELSE \E i \in 1..Len(f.entries) : EndsWith(f.entries[i].name, DotJson)
check_if_has_models_TrueOnError(f) ==
    IF ~Openable(f) THEN TRUE
    ELSE \E i \in 1..Len(f.entries) : IsTarget(f.entries[i].name)

\* check_if_has_models: any failure to open the archive is answered False
check_if_has_models(f) ==
    IF ~Openable(f) THEN FALSE
    ELSE \E i \in 1..Len(f.entries) : IsTarget(f.entries[i].name)

\* temp_buffer[key] = val on a dict that keeps insertion order
DictPut(buf, key, val) ==
    IF \E i \in 1..Len(buf) : buf[i].key = key
    THEN [i \in 1..Len(buf) |-> IF buf[i].key = key THEN val ELSE buf[i]]
    ELSE Append(buf, val)

BufItem(e, content) ==
    [key |-> e.name, content |-> content,
     file_info |-> [filename |-> e.name, compress_type |-> e.method]]

\* mutants of FixEntry: a decode error is not caught by line 111; count_fixed
\* counts the occurrences, not the entries
FixEntryDecodeRaises(e, acc) ==
    IF ~e.crc_ok THEN [acc EXCEPT !.raised = TRUE]
    ELSE IF IsTarget(e.name)
    THEN LET d == Decode(e.data)
         IN  IF ~d.ok
             THEN [acc EXCEPT !.raised = TRUE]
             ELSE IF HasSub(d.text, MissingStr)
             THEN [acc EXCEPT
                     !.buf = DictPut(acc.buf, e.name,
                                BufItem(e, Encode(Replace(d.text, MissingStr, ZeroStr)))),
                     !.count_fixed = acc.count_fixed + 1,
                     !.modified = TRUE]
             ELSE [acc EXCEPT
                     !.buf = DictPut(acc.buf, e.name, BufItem(e, Encode(d.text)))]
    ELSE [acc EXCEPT !.buf = DictPut(acc.buf, e.name, BufItem(e, e.data))]
FixEntryCountsOccurrences(e, acc) ==
    IF ~e.crc_ok THEN [acc EXCEPT !.raised = TRUE]
    ELSE IF IsTarget(e.name)
    THEN LET d == Decode(e.data)
         IN  IF ~d.ok
             THEN [acc EXCEPT !.buf = DictPut(acc.buf, e.name, BufItem(e, e.data))]
             ELSE IF HasSub(d.text, MissingStr)
             THEN [acc EXCEPT
                     !.buf = DictPut(acc.buf, e.name,
                                BufItem(e, Encode(Replace(d.text, MissingStr, ZeroStr)))),
                     !.count_fixed = acc.count_fixed
                        + Cardinality({p \in 1..Len(d.text) : MatchAt(d.text, p, MissingStr)}),
                     !.modified = TRUE]
             ELSE [acc EXCEPT
                     !.buf = DictPut(acc.buf, e.name, BufItem(e, Encode(d.text)))]
    ELSE [acc EXCEPT !.buf = DictPut(acc.buf, e.name, BufItem(e, e.data))]

\* The body of the loop over zip_ref.infolist() for one entry. zip_ref.read
\* raises on an entry whose data fails its integrity check; raised at line 103
\* it is caught at line 111 and raised again by line 112.
FixEntry(e, acc) ==
    IF ~e.crc_ok THEN [acc EXCEPT !.raised = TRUE]
    ELSE IF IsTarget(e.name)
    THEN LET d == Decode(e.data)
         IN  IF ~d.ok
             THEN [acc EXCEPT !.buf = DictPut(acc.buf, e.name, BufItem(e, e.data))]
             ELSE IF HasSub(d.text, MissingStr)
             THEN [acc EXCEPT
                     !.buf = DictPut(acc.buf, e.name,
                                BufItem(e, Encode(Replace(d.text, MissingStr, ZeroStr)))),
                     !.count_fixed = acc.count_fixed + 1,
                     !.modified = TRUE]
             ELSE [acc EXCEPT
                     !.buf = DictPut(acc.buf, e.name, BufItem(e, Encode(d.text)))]
    ELSE [acc EXCEPT !.buf = DictPut(acc.buf, e.name, BufItem(e, e.data))]

RECURSIVE FixLoop(_, _, _)
FixLoop(entries, i, acc) ==
    IF i > Len(entries) \/ acc.raised THEN acc
    ELSE FixLoop(entries, i + 1, FixEntry(entries[i], acc))

\* the buffer of a call that returned None
NoBuffer == <<>>

\* mutant of fix_missing_textures_in_memory: modified is set for every
\* archive that was read
fix_missing_textures_AlwaysModified(f) ==
    IF ~Openable(f)
    THEN [modified |-> FALSE, count_fixed |-> 0, buffer |-> NoBuffer]
    ELSE LET r == FixLoop(f.entries, 1,
                     [raised |-> FALSE, modified |-> FALSE, count_fixed |-> 0,
                      buf |-> <<>>])
         IN  IF r.raised
             THEN [modified |-> FALSE, count_fixed |-> 0, buffer |-> NoBuffer]
             ELSE [modified |-> TRUE, count_fixed |-> r.count_fixed,
                   buffer |-> r.buf]

\* fix_missing_textures_in_memory: (modified, count_fixed, buffer), and
\* (False, 0, None) when opening or reading the archive raised
fix_missing_textures_in_memory(f) ==
    IF ~Openable(f)
    THEN [modified |-> FALSE, count_fixed |-> 0, buffer |-> NoBuffer]
    ELSE LET r == FixLoop(f.entries, 1,
                     [raised |-> FALSE, modified |-> FALSE, count_fixed |-> 0,
                      buf |-> <<>>])
         IN  IF r.raised
             THEN [modified |-> FALSE, count_fixed |-> 0, buffer |-> NoBuffer]
             ELSE [modified |-> r.modified, count_fixed |-> r.count_fixed,
                   buffer |-> r.buf]

\* zipfile.ZIP_DEFLATED, the compression the temp archive is opened with
ZipDeflated == "deflated"

\* mutant of WrittenEntry: the entry is written with the archive's compression
WrittenEntryDefaultMethod(item) ==
    [name |-> item.file_info.filename, data |-> item.content,
     method |-> ZipDeflated, crc_ok |-> TRUE]

\* zipf.writestr(file_info, content): the entry as written, with the name and
\* compression method of file_info and a checksum computed from content
WrittenEntry(item) ==
    [name |-> item.file_info.filename, data |-> item.content,
     method |-> item.file_info.compress_type, crc_ok |-> TRUE]

----------------------------------------------------------------------------
(* The directory *)

PackA == <<"a", DotZip>>
PackB == <<"b", DotZip>>
\* a backup left by an earlier session whose archive is gone, and a file
\* that is no archive
OldBackup == <<BackupPrefix, "c", DotZip>>
Notes == <<"notes", ".txt">>

FileNames ==
    {PackA, PackB, BackupName(PackA), BackupName(PackB),
     TempName(PackA), TempName(PackB), OldBackup, Notes}

Entry(name, data, method) ==
    [name |-> name, data |-> data, method |-> method, crc_ok |-> TRUE]
Damaged(e) == [e EXCEPT !.crc_ok = FALSE]

SwordJson == <<"assets/minecraft/", ModelsItem, "sword", DotJson>>
IconPng == <<"assets/", "icon", ".png">>

\* "#missing" and "#0" in double quotes, and bytes that are not UTF-8
TextMissing == <<34>> \o MissingStr \o <<34>>
TextClean == <<34>> \o ZeroStr \o <<34>>
BinaryData == <<137, 80, 255>>

SwordMissing == Entry(SwordJson, TextMissing, "deflated")
SwordClean == Entry(SwordJson, TextClean, "deflated")
Icon == Entry(IconPng, BinaryData, "stored")
SoundsJson == Entry(<<"assets/minecraft/", "sounds", DotJson>>, TextMissing, "deflated")
ModelsReadme ==
    Entry(<<"assets/minecraft/", ModelsItem, "readme", ".txt">>, TextMissing, "stored")

PackFix == Zip(<<SwordMissing, Icon>>, TRUE)
PackClean == Zip(<<SwordClean, Icon>>, TRUE)
\* no model file: a JSON file outside models/item/, a text file inside it
PackNoModels == Zip(<<Icon, SoundsJson, ModelsReadme>>, TRUE)
\* a valid directory of entries, one of which fails its integrity check
PackDamaged == Zip(<<SwordMissing, Damaged(Icon)>>, TRUE)

\* model files: one that is not UTF-8 and holds the bytes of #missing, one
\* that holds #0, #missing twice and a two-byte character, and a clean one
\* with a two-byte character, stored uncompressed
BadJson ==
    Entry(<<"assets/minecraft/", ModelsItem, "bad", DotJson>>,
          <<255>> \o MissingStr, "deflated")
TextTwice == ZeroStr \o MissingStr \o <<44>> \o MissingStr \o <<195, 169>>
TwiceJson ==
    Entry(<<"assets/minecraft/", ModelsItem, "bow", DotJson>>, TextTwice, "deflated")
AccentJson ==
    Entry(<<"assets/minecraft/", ModelsItem, "egg", DotJson>>,
          <<34, 195, 169, 34>>, "stored")
PackMulti == Zip(<<BadJson, TwiceJson, AccentJson>>, TRUE)

SampleFiles == {PackFix, PackClean, PackNoModels, PackDamaged, Garbage}

\* a file cut short: what a failed copy or a failed write leaves
Truncated == Zip(<<>>, FALSE)

----------------------------------------------------------------------------
(* process_zip_files *)

NoError == "none"

Directory(a, b, bk, tmp) ==
    [f \in FileNames |->
        CASE f = PackA -> a
          [] f = PackB -> b
          [] f = BackupName(PackA) -> bk
          [] f = TempName(PackA) -> tmp
          [] f = OldBackup -> PackFix
          [] f = Notes -> Garbage
          [] OTHER -> Absent]

Init ==
    /\ \/ \E a \in SampleFiles, b \in {PackFix, Absent},
             bk \in {Absent, PackClean, Truncated}, tmp \in {Absent, Truncated} :
               fs = Directory(a, b, bk, tmp)
       \/ fs = Directory(PackMulti, Absent, Absent, Absent)
    /\ fs0 = fs
    /\ run = 0
    /\ pc = "start"
    /\ create_backups = TRUE
    /\ zip_files = <<>>
    /\ idx = 0
    /\ total_fixed = 0
    /\ successful_packs = <<>>
    /\ failed_packs = <<>>
    /\ skipped_packs = <<>>
    /\ history = <<>>
    /\ status_lines = <<>>
    /\ buffer = NoBuffer
    /\ fixed_count = 0
    /\ err = NoError

\* deque(maxlen=10)
HistoryMaxLen == 10

DequeAppend(d, x) ==
    IF Len(d) < HistoryMaxLen THEN Append(d, x) ELSE Append(Tail(d), x)

HistoryItem(outcome, count) ==
    [idx |-> idx, total |-> Len(zip_files), name |-> zip_files[idx],
     outcome |-> outcome, count |-> count]

\* mutant of IsCandidate: the backup_ prefix is not tested
IsCandidateAnyZip(f) == EndsWith(f, DotZip)

\* the files os.listdir returns that the comprehension of line 177 keeps
IsCandidate(f) == EndsWith(f, DotZip) /\ ~StartsWith(f, BackupPrefix)
Candidates == {f \in FileNames : Exists(fs[f]) /\ IsCandidate(f)}

\* the orders in which os.listdir may return a set of names
Listings(S) ==
    {s \in [1..Cardinality(S) -> S] : \A i, j \in DOMAIN s : s[i] = s[j] => i = j}

zip_filename == zip_files[idx]
zip_path == zip_files[idx]
backup_path == BackupName(zip_files[idx])
temp_zip == TempName(zip_files[idx])

Running == pc \notin {"start", "summary", "nozips"}

\* continue / the end of the loop body: the next iteration of the loop of
\* line 193 up to its first status line, or the end of the loop
Advance(last_status) ==
    /\ idx' = idx + 1
    /\ IF idx + 1 > Len(zip_files)
       THEN pc' = "summary" /\ status_lines' = last_status
       ELSE pc' = "scan" /\ status_lines' = <<"check">>

\* __main__ and the head of process_zip_files: the prompt's answer, the
\* listing and the counters
StartBatch(answer, listing) ==
    /\ pc \in {"start", "summary", "nozips"}
    /\ run < MaxRuns
    /\ run' = run + 1
    /\ create_backups' = answer
    /\ zip_files' = listing
    /\ fs0' = fs
    /\ total_fixed' = 0
    /\ successful_packs' = <<>>
    /\ failed_packs' = <<>>
    /\ skipped_packs' = <<>>
    /\ history' = <<>>
    /\ IF listing = <<>>
       THEN pc' = "nozips" /\ idx' = 0 /\ status_lines' = <<>>
       ELSE pc' = "scan" /\ idx' = 1 /\ status_lines' = <<"check">>
    /\ UNCHANGED <<fs, buffer, fixed_count, err>>

\* lines 214-225: the scanner answers False
ScanSkip ==
    /\ pc = "scan"
    /\ ~check_if_has_models(fs[zip_path])
    /\ skipped_packs' = Append(skipped_packs, zip_filename)
    /\ history' = DequeAppend(history, HistoryItem("Skipped", 0))
    /\ Advance(<<"check_skip">>)
    /\ UNCHANGED <<fs, fs0, run, create_backups, zip_files, total_fixed,
                   successful_packs, failed_packs, buffer, fixed_count, err>>

\* lines 214, 227-243: the scanner answers True
ScanEligible ==
    /\ pc = "scan"
    /\ check_if_has_models(fs[zip_path])
    /\ pc' = "fix"
    /\ status_lines' = <<"check_ok", "scan">>
    /\ UNCHANGED <<fs, fs0, run, create_backups, zip_files, idx, total_fixed,
                   successful_packs, failed_packs, skipped_packs, history,
                   buffer, fixed_count, err>>

\* line 245: the call of the patcher on the current archive
FixResult == fix_missing_textures_in_memory(fs[zip_path])

\* lines 245-258: nothing was modified
FixClean ==
    /\ pc = "fix"
    /\ ~FixResult.modified
    /\ buffer' = FixResult.buffer
    /\ fixed_count' = FixResult.count_fixed
    /\ successful_packs' = Append(successful_packs, <<zip_filename, 0>>)
    /\ history' = DequeAppend(history, HistoryItem("Clean", 0))
    /\ Advance(<<"check_ok", "scan_none">>)
    /\ UNCHANGED <<fs, fs0, run, create_backups, zip_files, total_fixed,
                   failed_packs, skipped_packs, err>>

\* lines 245, 260-267: some entry was modified
FixFound ==
    /\ pc = "fix"
    /\ FixResult.modified
    /\ buffer' = FixResult.buffer
    /\ fixed_count' = FixResult.count_fixed
    /\ total_fixed' = total_fixed + FixResult.count_fixed
    /\ status_lines' = <<"check_ok", "scan_found">>
    /\ pc' = "backup"
    /\ UNCHANGED <<fs, fs0, run, create_backups, zip_files, idx,
                   successful_packs, failed_packs, skipped_packs, history, err>>

\* mutant of NeedsBackup: the answer to the prompt is not tested
NeedsBackupIgnoresAnswer == ~Exists(fs[backup_path])

\* mutants of NeedsBackup: the test of line 274 inverted; the test of line 274 left out
NeedsBackupInverted == create_backups /\ Exists(fs[backup_path])
NeedsBackupAlways == create_backups

\* lines 270 and 274: a backup is wanted and there is none yet
NeedsBackup == create_backups /\ ~Exists(fs[backup_path])

\* lines 270-298: the backup is made, then the status line of step 4
BackupCopy ==
    /\ pc = "backup"
    /\ NeedsBackup
    /\ fs' = [fs EXCEPT ![backup_path] = fs[zip_path]]
    /\ status_lines' = status_lines \o <<"backup_ok", "write">>
    /\ pc' = "open"
    /\ UNCHANGED <<fs0, run, create_backups, zip_files, idx, total_fixed,
                   successful_packs, failed_packs, skipped_packs, history,
                   buffer, fixed_count, err>>

\* mutant of BackupCopyFail: the error of line 282 is swallowed and step 4 runs
BackupCopyFailIgnored ==
    /\ pc = "backup"
    /\ NeedsBackup
    /\ \E left \in {Absent, Truncated, fs[zip_path]} :
          fs' = [fs EXCEPT ![backup_path] = left]
    /\ status_lines' = status_lines \o <<"backup", "write">>
    /\ pc' = "open"
    /\ UNCHANGED <<fs0, run, create_backups, zip_files, idx, total_fixed,
                   successful_packs, failed_packs, skipped_packs, history,
                   buffer, fixed_count, err>>

\* line 282 raises: shutil.copy2 failed before creating the backup file,
\* while copying into it, or after the copy (copying the metadata)
BackupCopyFail ==
    /\ pc = "backup"
    /\ NeedsBackup
    /\ \E left \in {Absent, Truncated, fs[zip_path]} :
          fs' = [fs EXCEPT ![backup_path] = left]
    /\ status_lines' = Append(status_lines, "backup")
    /\ err' = "copy2"
    /\ pc' = "except"
    /\ UNCHANGED <<fs0, run, create_backups, zip_files, idx, total_fixed,
                   successful_packs, failed_packs, skipped_packs, history,
                   buffer, fixed_count>>

\* lines 270, 274: backups are off or the backup file exists
BackupSkip ==
    /\ pc = "backup"
    /\ ~NeedsBackup
    /\ status_lines' = Append(status_lines, "write")
    /\ pc' = "open"
    /\ UNCHANGED <<fs, fs0, run, create_backups, zip_files, idx, total_fixed,
                   successful_packs, failed_packs, skipped_packs, history,
                   buffer, fixed_count, err>>

\* line 302: zipfile.ZipFile(temp_zip, 'w') creates or empties the temp file
OpenTemp ==
    /\ pc = "open"
    /\ fs' = [fs EXCEPT ![temp_zip] = Zip(<<>>, FALSE)]
    /\ pc' = "write"
    /\ UNCHANGED <<fs0, run, create_backups, zip_files, idx, total_fixed,
                   successful_packs, failed_packs, skipped_packs, history,
                   status_lines, buffer, fixed_count, err>>

\* line 302 raises
OpenTempFail ==
    /\ pc = "open"
    /\ err' = "open"
    /\ pc' = "except"
    /\ UNCHANGED <<fs, fs0, run, create_backups, zip_files, idx, total_fixed,
                   successful_packs, failed_packs, skipped_packs, history,
                   status_lines, buffer, fixed_count>>

\* number of buffer items written to the temp file
Written == Len(fs[temp_zip].entries)

\* lines 303-304: one zipf.writestr
WriteEntry ==
    /\ pc = "write"
    /\ Written < Len(buffer)
    /\ fs' = [fs EXCEPT ![temp_zip] =
                 Zip(Append(fs[temp_zip].entries, WrittenEntry(buffer[Written + 1])),
                     FALSE)]
    /\ UNCHANGED <<fs0, run, pc, create_backups, zip_files, idx, total_fixed,
                   successful_packs, failed_packs, skipped_packs, history,
                   status_lines, buffer, fixed_count, err>>

\* line 304 raises; the temp file stays as far as it was written
WriteEntryFail ==
    /\ pc = "write"
    /\ Written < Len(buffer)
    /\ err' = "writestr"
    /\ pc' = "except"
    /\ UNCHANGED <<fs, fs0, run, create_backups, zip_files, idx, total_fixed,
                   successful_packs, failed_packs, skipped_packs, history,
                   status_lines, buffer, fixed_count>>

\* the end of the with block of line 302: the archive is closed
CloseTemp ==
    /\ pc = "write"
    /\ Written = Len(buffer)
    /\ fs' = [fs EXCEPT ![temp_zip] = Zip(fs[temp_zip].entries, TRUE)]
    /\ pc' = "remove"
    /\ UNCHANGED <<fs0, run, create_backups, zip_files, idx, total_fixed,
                   successful_packs, failed_packs, skipped_packs, history,
                   status_lines, buffer, fixed_count, err>>

\* closing the archive raises
CloseTempFail ==
    /\ pc = "write"
    /\ Written = Len(buffer)
    /\ err' = "close"
    /\ pc' = "except"
    /\ UNCHANGED <<fs, fs0, run, create_backups, zip_files, idx, total_fixed,
                   successful_packs, failed_packs, skipped_packs, history,
                   status_lines, buffer, fixed_count>>

\* mutant of RemoveOriginal: the original is removed inside the with block,
\* before the temp archive is closed
RemoveOriginalBeforeClose ==
    /\ pc \in {"write", "remove"}
    /\ fs' = [fs EXCEPT ![zip_path] = Absent]
    /\ pc' = "rename"
    /\ UNCHANGED <<fs0, run, create_backups, zip_files, idx, total_fixed,
                   successful_packs, failed_packs, skipped_packs, history,
                   status_lines, buffer, fixed_count, err>>

\* line 306: os.remove(zip_path)
RemoveOriginal ==
    /\ pc = "remove"
    /\ fs' = [fs EXCEPT ![zip_path] = Absent]
    /\ pc' = "rename"
    /\ UNCHANGED <<fs0, run, create_backups, zip_files, idx, total_fixed,
                   successful_packs, failed_packs, skipped_packs, history,
                   status_lines, buffer, fixed_count, err>>

\* line 306 raises
RemoveOriginalFail ==
    /\ pc = "remove"
    /\ err' = "remove"
    /\ pc' = "except"
    /\ UNCHANGED <<fs, fs0, run, create_backups, zip_files, idx, total_fixed,
                   successful_packs, failed_packs, skipped_packs, history,
                   status_lines, buffer, fixed_count>>

\* lines 307-320: os.rename(temp_zip, zip_path) and the record of the success
RenameTemp ==
    /\ pc = "rename"
    /\ fs' = [fs EXCEPT ![zip_path] = fs[temp_zip], ![temp_zip] = Absent]
    /\ successful_packs' = Append(successful_packs, <<zip_filename, fixed_count>>)
    /\ history' = DequeAppend(history, HistoryItem("Fixed", fixed_count))
    /\ Advance([status_lines EXCEPT ![Len(status_lines)] = "write_ok"] \o <<"fixed">>)
    /\ UNCHANGED <<fs0, run, create_backups, zip_files, total_fixed,
                   failed_packs, skipped_packs, buffer, fixed_count, err>>

\* line 307 raises
RenameTempFail ==
    /\ pc = "rename"
    /\ err' = "rename"
    /\ pc' = "except"
    /\ UNCHANGED <<fs, fs0, run, create_backups, zip_files, idx, total_fixed,
                   successful_packs, failed_packs, skipped_packs, history,
                   status_lines, buffer, fixed_count>>

\* mutants of HandleError: the error ends the loop; the temp file is not removed
HandleErrorAbort(removed) ==
    /\ pc = "except"
    /\ failed_packs' = Append(failed_packs, <<zip_filename, err>>)
    /\ history' = DequeAppend(history, HistoryItem("Failed", 0))
    /\ IF Exists(fs[temp_zip]) /\ removed
       THEN fs' = [fs EXCEPT ![temp_zip] = Absent]
       ELSE fs' = fs
    /\ err' = NoError
    /\ pc' = "summary"
    /\ status_lines' = Append(status_lines, "error")
    /\ UNCHANGED <<fs0, run, create_backups, zip_files, idx, total_fixed,
                   successful_packs, skipped_packs, buffer, fixed_count>>
HandleErrorNoCleanup(removed) ==
    /\ pc = "except"
    /\ failed_packs' = Append(failed_packs, <<zip_filename, err>>)
    /\ history' = DequeAppend(history, HistoryItem("Failed", 0))
    /\ err' = NoError
    /\ Advance(Append(status_lines, "error"))
    /\ UNCHANGED <<fs, fs0, run, create_backups, zip_files, total_fixed,
                   successful_packs, skipped_packs, buffer, fixed_count>>

\* lines 322-340: the handler; removed = the os.remove of line 337 succeeded
\* (when it raises, line 338 swallows the error and the temp file stays)
HandleError(removed) ==
    /\ pc = "except"
    /\ failed_packs' = Append(failed_packs, <<zip_filename, err>>)
    /\ history' = DequeAppend(history, HistoryItem("Failed", 0))
    /\ IF Exists(fs[temp_zip]) /\ removed
       THEN fs' = [fs EXCEPT ![temp_zip] = Absent]
       ELSE fs' = fs
    /\ Exists(fs[temp_zip]) \/ removed
    /\ err' = NoError
    /\ Advance(Append(status_lines, "error"))
    /\ UNCHANGED <<fs0, run, create_backups, zip_files, total_fixed,
                   successful_packs, skipped_packs, buffer, fixed_count>>

Next ==
    \/ \E answer \in BOOLEAN : \E listing \in Listings(Candidates) :
          StartBatch(answer, listing)
    \/ ScanSkip
    \/ ScanEligible
    \/ FixClean
    \/ FixFound
    \/ BackupCopy
    \/ BackupCopyFail
    \/ BackupSkip
    \/ OpenTemp
    \/ OpenTempFail
    \/ WriteEntry
    \/ WriteEntryFail
    \/ CloseTemp
    \/ CloseTempFail
    \/ RemoveOriginal
    \/ RemoveOriginalFail
    \/ RenameTemp
    \/ RenameTempFail
    \/ \E removed \in BOOLEAN : HandleError(removed)

Spec == Init /\ [][Next]_vars

----------------------------------------------------------------------------
(* Properties *)

Range(s) == {s[i] : i \in DOMAIN s}
Names(packs) == {packs[i][1] : i \in DOMAIN packs}

\* the number of archives of the listing whose processing has ended
Done == IF Running \/ pc = "summary" THEN idx - 1 ELSE 0

\* the number of bucket records that name n
Occurrences(n) ==
    Cardinality({i \in DOMAIN successful_packs : successful_packs[i][1] = n})
    + Cardinality({i \in DOMAIN failed_packs : failed_packs[i][1] = n})
    + Cardinality({i \in DOMAIN skipped_packs : skipped_packs[i] = n})

\* the archive the patcher's buffer would be written as
PatchedArchive(f) ==
    LET buf == fix_missing_textures_in_memory(f).buffer
    IN  Zip([i \in 1..Len(buf) |-> WrittenEntry(buf[i])], TRUE)

\* errors raised while the temp file is written, before the original is removed
WriteErrors == {"writestr", "close"}

\* C1: an archive whose processing failed between the removal of the original
\* and the rename of the temp file still has its temp file on disk.
C1_TempKeptAfterRenameFailure ==
    \A i \in DOMAIN failed_packs :
        failed_packs[i][2] = "rename" => Exists(fs[TempName(failed_packs[i][1])])

\* C2: for every archive of the listing, in every state, a complete copy of
\* its data (as listed, or patched) is on disk under the original path, the
\* temp path or the backup path.
C2_CompleteCopyExists ==
    \A i \in 1..Len(zip_files) :
        LET n == zip_files[i]
            orig == fs0[n]
        IN  \/ fs[n] = orig
            \/ Openable(orig) /\ fs[n] = PatchedArchive(orig)
            \/ Openable(orig) /\ fs[TempName(n)] = PatchedArchive(orig)
            \/ fs[BackupName(n)] = orig

\* an archive that passes the scan and whose entries cannot all be read
CorruptAtPatch(f) ==
    /\ Openable(f)
    /\ \E i \in 1..Len(f.entries) :
          Contains(f.entries[i].name, ModelsItem) /\ EndsWith(f.entries[i].name, DotJson)
    /\ \E i \in 1..Len(f.entries) : ~f.entries[i].crc_ok

\* C3: an archive that passed the scan and cannot be read by the patcher is
\* recorded in the failed bucket and not in the succeeded bucket.
C3_CorruptAtPatchIsFailed ==
    \A i \in 1..Done :
        CorruptAtPatch(fs0[zip_files[i]]) =>
            /\ zip_files[i] \in Names(failed_packs)
            /\ zip_files[i] \notin Names(successful_packs)

\* C4: with backups enabled, a step that removes an archive starts in a state
\* where its backup file exists, and that backup equals the archive as listed
\* when this pass made it; the step that completes the patch leaves such a
\* backup in place.
C4_BackupBeforeRemoval ==
    [][create_backups /\ Running =>
        /\ (Exists(fs[zip_path]) /\ ~Exists(fs'[zip_path])) =>
              /\ Exists(fs[backup_path])
              /\ "backup_ok" \in Range(status_lines) => fs[backup_path] = fs0[zip_path]
        /\ (pc = "rename" /\ Len(successful_packs') > Len(successful_packs)) =>
              /\ Exists(fs'[backup_path])
              /\ "backup_ok" \in Range(status_lines) => fs'[backup_path] = fs0[zip_path]
        /\ \A f \in FileNames \ {zip_path} :
              IsCandidate(f) /\ Exists(fs[f]) => Exists(fs'[f])
      ]_vars

C4_Witness ==
    /\ pc = "rename"
    /\ create_backups
    /\ "backup_ok" \in Range(status_lines)
    /\ ~Exists(fs[zip_path])

\* C5: a backup file that exists keeps its bytes in every step, across batches.
C5_BackupNeverOverwritten ==
    [][\A f \in FileNames :
          StartsWith(f, BackupPrefix) /\ Exists(fs[f]) => fs'[f] = fs[f]]_vars

C5_Witness ==
    /\ run = 2
    /\ pc = "open"
    /\ create_backups
    /\ Exists(fs[backup_path])
    /\ fs[backup_path] # fs[zip_path]
    /\ "backup_ok" \notin Range(status_lines)

\* C6: once the backup copy has failed, the archive's processing is in the
\* handler with the original as listed and no temp file written, and the next
\* step records the archive as Failed and leaves the original as listed.
C6_BackupFailureAborts ==
    [][(Running /\ "backup" \in Range(status_lines)) =>
        /\ pc = "except"
        /\ err = "copy2"
        /\ fs[zip_path] = fs0[zip_path]
        /\ fs[temp_zip] = fs0[temp_zip]
        /\ fs'[zip_path] = fs0[zip_path]
        /\ fs'[temp_zip] \in {fs0[temp_zip], Absent}
        /\ failed_packs' = Append(failed_packs, <<zip_filename, "copy2">>)
        /\ successful_packs' = successful_packs
      ]_vars

C6_Witness ==
    /\ pc = "except"
    /\ err = "copy2"
    /\ "backup" \in Range(status_lines)

\* C7: the archives are processed in listing order, each processed archive
\* is recorded in exactly one bucket, no error leaves the loop before its
\* end, and at the end of the loop every archive of the listing is recorded.
C7_EveryArchiveInOneBucket ==
    /\ \A i \in 1..Len(zip_files) :
          Occurrences(zip_files[i]) = (IF i <= Done THEN 1 ELSE 0)
    /\ Len(successful_packs) + Len(failed_packs) + Len(skipped_packs) = Done
    /\ Len(history) = Done
    /\ \A i \in 1..Done : history[i].idx = i /\ history[i].name = zip_files[i]
    /\ Running => idx \in 1..Len(zip_files)
    /\ err # NoError => pc = "except"
    /\ pc = "summary" => Done = Len(zip_files)

C7_Witness ==
    /\ pc = "summary"
    /\ Len(zip_files) = 2
    /\ Len(failed_packs) = 1
    /\ failed_packs[1][1] = zip_files[1]
    /\ Len(successful_packs) = 1
    /\ successful_packs[1][2] > 0

\* C8 as stated: an archive whose temp file could not be built has no temp
\* file on disk and its original as listed.
C8_NoTempAfterWriteFailure ==
    \A i \in DOMAIN failed_packs :
        failed_packs[i][2] \in WriteErrors =>
            /\ ~Exists(fs[TempName(failed_packs[i][1])])
            /\ fs[failed_packs[i][1]] = fs0[failed_packs[i][1]]

\* C8 amended: when building the temp file has failed, the original is as
\* listed; every step the handler can take records the archive as Failed,
\* leaves the original as listed and leaves the temp file either deleted or
\* as it was (the deletion itself failed and line 338 swallowed the error);
\* and the handler can take the step that deletes the temp file.
C8_TempDeletedUnlessRemoveFails ==
    (pc = "except" /\ err \in WriteErrors) =>
        /\ fs[zip_path] = fs0[zip_path]
        /\ ENABLED (Next /\ fs'[temp_zip] = Absent)
        /\ ~ENABLED (Next /\ ~(/\ fs'[zip_path] = fs0[zip_path]
                               /\ fs'[temp_zip] \in {Absent, fs[temp_zip]}
                               /\ failed_packs' = Append(failed_packs, <<zip_filename, err>>)
                               /\ successful_packs' = successful_packs))

C8_Witness ==
    /\ pc = "except"
    /\ err = "writestr"
    /\ Exists(fs[temp_zip])
    /\ ~fs[temp_zip].complete

\* an archive with no entry whose name contains models/item/ and ends in .json
ZeroTargets(f) ==
    /\ Openable(f)
    /\ \A i \in 1..Len(f.entries) :
          ~(Contains(f.entries[i].name, ModelsItem) /\ EndsWith(f.entries[i].name, DotJson))

\* C9: an archive with zero model entries is never taken past the scan, its
\* file, backup file and temp file stay as listed, and once processed it is
\* in the skipped bucket only.
C9_NoModelsIsSkipped ==
    \A i \in 1..Len(zip_files) :
        LET n == zip_files[i]
        IN  ZeroTargets(fs0[n]) =>
              /\ fs[n] = fs0[n]
              /\ fs[BackupName(n)] = fs0[BackupName(n)]
              /\ fs[TempName(n)] = fs0[TempName(n)]
              /\ (Running /\ i = idx) => pc = "scan"
              /\ i <= Done =>
                    /\ n \in Range(skipped_packs)
                    /\ n \notin Names(successful_packs) \cup Names(failed_packs)

C9_Witness ==
    /\ pc = "summary"
    /\ \E i \in 1..Len(zip_files) :
          /\ ZeroTargets(fs0[zip_files[i]])
          /\ Len(fs0[zip_files[i]].entries) > 0
          /\ zip_files[i] \in Range(skipped_packs)

\* C10: an archive that cannot be opened is never taken past the scan, its
\* file stays as listed, and once processed it is in the skipped bucket and
\* not in the failed bucket.
C10_UnopenableIsSkipped ==
    \A i \in 1..Len(zip_files) :
        LET n == zip_files[i]
        IN  ~Openable(fs0[n]) =>
              /\ fs[n] = fs0[n]
              /\ (Running /\ i = idx) => pc = "scan"
              /\ i <= Done =>
                    /\ n \in Range(skipped_packs)
                    /\ n \notin Names(failed_packs)
                    /\ n \notin Names(successful_packs)

C10_Witness ==
    /\ pc = "summary"
    /\ \E i \in 1..Len(zip_files) :
          /\ fs0[zip_files[i]] = Garbage
          /\ zip_files[i] \in Range(skipped_packs)

----------------------------------------------------------------------------
(* Properties of the patch *)

\* the positions at which pat occurs in t
Occ(t, pat) == {p \in 1..Len(t) : MatchAt(t, p, pat)}

\* a target entry whose decoded text contains #missing
Fixable(e) ==
    /\ Contains(e.name, ModelsItem) /\ EndsWith(e.name, DotJson)
    /\ Decode(e.data).ok
    /\ Occ(Decode(e.data).text, MissingStr) # {}

\* a target entry that does not decode as UTF-8
Undecodable(e) ==
    /\ Contains(e.name, ModelsItem) /\ EndsWith(e.name, DotJson)
    /\ ~Decode(e.data).ok

NumFixable(f) == Cardinality({j \in 1..Len(f.entries) : Fixable(f.entries[j])})

\* the listed archives that this batch has rewritten
Rewritten ==
    {n \in Range(zip_files) :
        \E k \in DOMAIN successful_packs :
            successful_packs[k][1] = n /\ successful_packs[k][2] > 0}

\* the files that hold a completely written patched archive: the rewritten
\* archives, and the temp file once it is closed
PatchedPairs ==
    {<<fs0[n], fs[n]>> : n \in Rewritten}
    \cup (IF pc \in {"remove", "rename"}
          THEN {<<fs0[zip_path], fs[temp_zip]>>} ELSE {})

\* an eligible archive in which no target entry contains #missing
CleanEligible(f) ==
    /\ Openable(f)
    /\ \E j \in 1..Len(f.entries) :
          Contains(f.entries[j].name, ModelsItem) /\ EndsWith(f.entries[j].name, DotJson)
    /\ \A j \in 1..Len(f.entries) : ~Fixable(f.entries[j])

\* C11: an eligible archive without #missing is reported unmodified with
\* count 0, never goes past the patcher, keeps its file, backup path and temp
\* path as listed, and once processed is recorded as Clean.
C11_CleanIsUntouched ==
    \A i \in 1..Len(zip_files) :
        LET n == zip_files[i]
        IN  CleanEligible(fs0[n]) =>
              /\ ~fix_missing_textures_in_memory(fs0[n]).modified
              /\ fix_missing_textures_in_memory(fs0[n]).count_fixed = 0
              /\ fs[n] = fs0[n]
              /\ fs[BackupName(n)] = fs0[BackupName(n)]
              /\ fs[TempName(n)] = fs0[TempName(n)]
              /\ (Running /\ i = idx) => pc \in {"scan", "fix"}
              /\ i <= Done =>
                    /\ <<n, 0>> \in Range(successful_packs)
                    /\ n \notin Names(failed_packs) \cup Range(skipped_packs)
                    /\ history[i].outcome = "Clean"

C11_Witness ==
    /\ pc = "summary"
    /\ create_backups
    /\ \E i \in 1..Len(zip_files) :
          /\ CleanEligible(fs0[zip_files[i]])
          /\ history[i].outcome = "Clean"
          /\ ~Exists(fs[BackupName(zip_files[i])])

\* the position in the patched text of the occurrence at p of the original
Shifted(t, p) ==
    p - (Len(MissingStr) - Len(ZeroStr)) * Cardinality({q \in Occ(t, MissingStr) : q < p})

\* C12 as stated: in a patched archive, the text of every entry that held
\* #missing has no #missing, as many #0 as the original had #missing, each
\* at the position of the occurrence it replaces; the count recorded for a
\* rewritten archive is the number of such entries.
C12_SameCountOfZero ==
    /\ \A pr \in PatchedPairs :
          \A j \in 1..Len(pr[1].entries) :
              Fixable(pr[1].entries[j]) =>
                  LET t == Decode(pr[1].entries[j].data).text
                      u == Decode(pr[2].entries[j].data).text
                  IN  /\ Occ(u, MissingStr) = {}
                      /\ Cardinality(Occ(u, ZeroStr)) = Cardinality(Occ(t, MissingStr))
                      /\ \A p \in Occ(t, MissingStr) : Shifted(t, p) \in Occ(u, ZeroStr)
    /\ \A k \in DOMAIN successful_packs :
          successful_packs[k][2] > 0 =>
              successful_packs[k][2] = NumFixable(fs0[successful_packs[k][1]])

\* C12 amended: the #0 of the patched text are those the original had, moved
\* by the replacements before them, and one for each #missing.
C12_EveryOccurrenceReplaced ==
    /\ \A pr \in PatchedPairs :
          \A j \in 1..Len(pr[1].entries) :
              Fixable(pr[1].entries[j]) =>
                  LET t == Decode(pr[1].entries[j].data).text
                      u == Decode(pr[2].entries[j].data).text
                  IN  /\ Decode(pr[2].entries[j].data).ok
                      /\ Occ(u, MissingStr) = {}
                      /\ Occ(u, ZeroStr) =
                            {Shifted(t, p) : p \in Occ(t, MissingStr) \cup Occ(t, ZeroStr)}
                      /\ Cardinality(Occ(u, ZeroStr)) =
                            Cardinality(Occ(t, MissingStr)) + Cardinality(Occ(t, ZeroStr))
                      /\ Len(u) = Len(t) - (Len(MissingStr) - Len(ZeroStr))
                                            * Cardinality(Occ(t, MissingStr))
    /\ \A k \in DOMAIN successful_packs :
          successful_packs[k][2] > 0 =>
              successful_packs[k][2] = NumFixable(fs0[successful_packs[k][1]])
    /\ (Running /\ pc \notin {"scan", "fix"}) => fixed_count = NumFixable(fs0[zip_path])

C12_Witness ==
    /\ pc = "summary"
    /\ \E n \in Rewritten :
          \E j \in 1..Len(fs0[n].entries) :
              /\ Fixable(fs0[n].entries[j])
              /\ Cardinality(Occ(Decode(fs0[n].entries[j].data).text, MissingStr)) = 2
              /\ Occ(Decode(fs0[n].entries[j].data).text, ZeroStr) # {}

\* C13: a patched archive has the entries of the original, and every entry
\* that is not a target holding #missing has the bytes it had.
C13_OtherEntriesIdentical ==
    \A pr \in PatchedPairs :
        /\ Openable(pr[2])
        /\ Len(pr[2].entries) = Len(pr[1].entries)
        /\ \A j \in 1..Len(pr[1].entries) :
              /\ pr[2].entries[j].name = pr[1].entries[j].name
              /\ ~Fixable(pr[1].entries[j]) =>
                    pr[2].entries[j].data = pr[1].entries[j].data

C13_Witness ==
    /\ pc = "summary"
    /\ \E n \in Rewritten :
          \E j, k \in 1..Len(fs0[n].entries) :
              /\ ~Fixable(fs0[n].entries[j])
              /\ Decode(fs0[n].entries[j].data).ok
              /\ \E c \in 1..Len(fs0[n].entries[j].data) : fs0[n].entries[j].data[c] > 127
              /\ fs[n].entries[j].data = fs0[n].entries[j].data
              /\ Undecodable(fs0[n].entries[k])

\* an archive that holds a target entry that does not decode and a target
\* entry with #missing, all of whose entries can be read
MixedArchive(f) ==
    /\ Openable(f)
    /\ \A j \in 1..Len(f.entries) : f.entries[j].crc_ok
    /\ \E j \in 1..Len(f.entries) : Undecodable(f.entries[j])
    /\ \E j \in 1..Len(f.entries) : Fixable(f.entries[j])

\* C14: for such an archive the patcher reports the other entries fixed and
\* holds the undecodable entry's raw bytes; the archive is never recorded as
\* Skipped or Clean, a failure it is recorded with is an error of a later
\* step, and when it is rewritten the undecodable entry has its raw bytes and
\* the outcome is Fixed.
C14_UndecodableIsPassedThrough ==
    \A i \in 1..Len(zip_files) :
        LET n == zip_files[i]
            o == fs0[n]
        IN  MixedArchive(o) =>
              /\ fix_missing_textures_in_memory(o).modified
              /\ fix_missing_textures_in_memory(o).count_fixed = NumFixable(o)
              /\ (Running /\ i = idx /\ pc \notin {"scan", "fix"}) =>
                    /\ fixed_count = NumFixable(o)
                    /\ \A j \in 1..Len(o.entries) :
                          Undecodable(o.entries[j]) => buffer[j].content = o.entries[j].data
                    /\ pc = "except" =>
                          err \in {"copy2", "open", "writestr", "close", "remove", "rename"}
              /\ i <= Done =>
                    /\ n \notin Range(skipped_packs)
                    /\ <<n, 0>> \notin Range(successful_packs)
                    /\ history[i].outcome \in {"Fixed", "Failed"}
                    /\ history[i].outcome = "Fixed" =>
                          /\ n \in Rewritten
                          /\ \A j \in 1..Len(o.entries) :
                                /\ Undecodable(o.entries[j]) =>
                                      fs[n].entries[j].data = o.entries[j].data
                                /\ Fixable(o.entries[j]) =>
                                      fs[n].entries[j].data # o.entries[j].data

C14_Witness ==
    /\ pc = "summary"
    /\ \E i \in 1..Len(zip_files) :
          /\ MixedArchive(fs0[zip_files[i]])
          /\ history[i].outcome = "Fixed"

\* C15: a patched archive has the entry names of the original in the same
\* order, and each entry has the compression method it had.
C15_OrderAndMethodKept ==
    \A pr \in PatchedPairs :
        /\ [j \in 1..Len(pr[2].entries) |-> pr[2].entries[j].name]
              = [j \in 1..Len(pr[1].entries) |-> pr[1].entries[j].name]
        /\ [j \in 1..Len(pr[2].entries) |-> pr[2].entries[j].method]
              = [j \in 1..Len(pr[1].entries) |-> pr[1].entries[j].method]

C15_Witness ==
    /\ pc = "summary"
    /\ \E n \in Rewritten :
          \E j, k \in 1..Len(fs[n].entries) :
              /\ j < k
              /\ fs[n].entries[j].method = ZipDeflated
              /\ fs[n].entries[k].method # ZipDeflated

\* the archives a first run writes
FixedResults ==
    {PatchedArchive(f) :
        f \in {g \in {PackFix, PackMulti} : fix_missing_textures_in_memory(g).modified}}

\* C16: an archive that is the result of a fix is reported unmodified with
\* count 0 by the next run, which leaves its file as it is and records it as
\* Clean.
C16_SecondRunIsClean ==
    \A i \in 1..Len(zip_files) :
        LET n == zip_files[i]
        IN  fs0[n] \in FixedResults =>
              /\ ~fix_missing_textures_in_memory(fs0[n]).modified
              /\ fix_missing_textures_in_memory(fs0[n]).count_fixed = 0
              /\ fs[n] = fs0[n]
              /\ (Running /\ i = idx) => pc \in {"scan", "fix"}
              /\ i <= Done =>
                    /\ <<n, 0>> \in Range(successful_packs)
                    /\ history[i].outcome = "Clean"

C16_Witness ==
    /\ run = 2
    /\ pc = "summary"
    /\ \E i \in 1..Len(zip_files) :
          /\ fs0[zip_files[i]] = PatchedArchive(PackMulti)
          /\ fs[zip_files[i]] = fs0[zip_files[i]]
          /\ history[i].outcome = "Clean"

\* C17: no file named backup_* is in the listing, the listing holds only
\* files that existed when the batch started, and the file, backup path and
\* temp path of a backup_* file are never written.
C17_BackupsAreNotCandidates ==
    /\ \A i \in 1..Len(zip_files) :
          /\ ~StartsWith(zip_files[i], BackupPrefix)
          /\ Exists(fs0[zip_files[i]])
    /\ Running =>
          /\ ~StartsWith(zip_path, BackupPrefix)
          /\ BackupName(zip_path) \notin Range(zip_files)
    /\ \A f \in FileNames :
          (run > 0 /\ StartsWith(f, BackupPrefix) /\ Exists(fs0[f])) => fs[f] = fs0[f]

C17_Witness ==
    /\ pc = "scan"
    /\ idx = 2
    /\ create_backups
    /\ Len(zip_files) = 2
    /\ Exists(fs[BackupName(zip_files[1])])
    /\ ~Exists(fs0[BackupName(zip_files[1])])

\* C18: during and after a batch run with backups disabled, every backup_*
\* file is as it was when the batch started, and none has appeared.
C18_NoBackupWhenDisabled ==
    (run > 0 /\ ~create_backups) =>
        \A f \in FileNames : StartsWith(f, BackupPrefix) => fs[f] = fs0[f]

C18_Witness ==
    /\ pc = "summary"
    /\ ~create_backups
    /\ \E n \in Rewritten : ~Exists(fs[BackupName(n)])

RECURSIVE SumCounts(_)
SumCounts(packs) ==
    IF packs = <<>> THEN 0 ELSE Head(packs)[2] + SumCounts(Tail(packs))

\* C19: at the end of a batch the total of fixed files is the sum of the
\* counts recorded in the succeeded bucket.
C19_TotalIsSumOfSucceeded ==
    pc = "summary" => total_fixed = SumCounts(successful_packs)

\* C20: the step that removes the original starts with the temp file closed
\* and holding every item of the buffer, and leaves it so; once the original
\* is removed the temp file is not written any more.
C20_RemovalAfterTempClosed ==
    [][Running =>
        /\ (Exists(fs[zip_path]) /\ ~Exists(fs'[zip_path])) =>
              /\ fs[temp_zip] = Zip([j \in 1..Len(buffer) |-> WrittenEntry(buffer[j])], TRUE)
              /\ fs'[temp_zip] = fs[temp_zip]
        /\ ~Exists(fs[zip_path]) => fs'[temp_zip] \in {fs[temp_zip], Absent}
      ]_vars

C20_Witness ==
    /\ pc = "rename"
    /\ ~Exists(fs[zip_path])
    /\ Len(buffer) = 3
    /\ fs[temp_zip] = Zip([j \in 1..Len(buffer) |-> WrittenEntry(buffer[j])], TRUE)

====
